---- MODULE Spec2Model ----
(***************************************************************************)
(* A model of core.OutputManager (core/output.go): the configuration, the  *)
(* bound lumberjack handle, the rotation statistics and the hook registry, *)
(* driven by concurrent callers, with the dispatch goroutine started by    *)
(* every rotation attempt and one goroutine per notified hook.             *)
(*                                                                         *)
(* Paths are sequences of one-character strings.  time.Time is a natural   *)
(* number, 0 being the zero time.  A handle is an index into `handles`,    *)
(* 0 being the nil io.WriteCloser.                                         *)
(***************************************************************************)
EXTENDS Integers, Sequences, FiniteSets, TLC

\* ------------------------------------------------------------- bounds
\* Operations the callers start in one behaviour.
MaxCalls == 3
MaxTermCalls == 2

Callers == {"c1", "c2"}
Hooks == {"h1", "h2"}
\* The hooks whose body panics when invoked.
PanicHooks == {"h1"}

\* ------------------------------------------------------------- constants
DefaultMaxSize == 100
DefaultMaxAge == 7
DefaultMaxBackups == 5
DefaultCompress == TRUE
DefaultLocalTime == FALSE
\* 1024 * 1024 of ForceRotationIfNeeded: bytes in a megabyte.
MB == 1024 * 1024

NoHandle == 0
ZeroTime == 0
\* os.Stat of a file that does not exist.
NoFile == -1

\* ------------------------------------------------------------- paths
PathA == <<"/", "d", "/", "a">>
PathB == <<"/", "e", "/", "b">>
EmptyPath == <<>>

\* strings.HasSuffix(path, suffix), suffix one character.
HasSuffix(path, c) == path # <<>> /\ path[Len(path)] = c

\* The index of the last separator of path, 0 when it has none.
LastSep(path) ==
    LET S == {i \in 1..Len(path) : path[i] = "/"}
    IN  IF S = {} THEN 0 ELSE CHOOSE i \in S : \A j \in S : j <= i

\* The non-empty components of path, in order.
RECURSIVE Components(_)
Components(path) ==
    IF path = <<>> THEN <<>>
    ELSE IF Head(path) = "/" THEN Components(Tail(path))
    ELSE LET S == {i \in 1..Len(path) : path[i] = "/"}
             n == IF S = {} THEN Len(path) + 1
                  ELSE CHOOSE i \in S : \A j \in S : i <= j
         IN  <<SubSeq(path, 1, n - 1)>> \o Components(SubSeq(path, n, Len(path)))

\* The component loop of filepath.Clean: "." is dropped, ".." removes the
\* component before it, is dropped at the root and kept in front of a
\* relative path.
RECURSIVE CleanComps(_, _, _)
CleanComps(comps, out, rooted) ==
    IF comps = <<>> THEN out
    ELSE LET c == Head(comps)
             rest == Tail(comps)
         IN  IF c = <<".">> THEN CleanComps(rest, out, rooted)
             ELSE IF c = <<".", ".">>
             THEN IF out # <<>> /\ out[Len(out)] # <<".", ".">>
                  THEN CleanComps(rest, SubSeq(out, 1, Len(out) - 1), rooted)
                  ELSE IF rooted THEN CleanComps(rest, out, rooted)
                  ELSE CleanComps(rest, Append(out, c), rooted)
             ELSE CleanComps(rest, Append(out, c), rooted)

RECURSIVE Join(_)
Join(comps) ==
    IF comps = <<>> THEN <<>>
    ELSE IF Len(comps) = 1 THEN comps[1]
    ELSE comps[1] \o <<"/">> \o Join(Tail(comps))

\* filepath.Clean, with "/" the only separator.
Clean(path) ==
    IF path = <<>> THEN <<".">>
    ELSE LET rooted == path[1] = "/"
             body == Join(CleanComps(Components(path), <<>>, rooted))
         IN  IF rooted THEN <<"/">> \o body
             ELSE IF body = <<>> THEN <<".">> ELSE body

\* filepath.Dir: Clean of everything up to the last separator.
Dir(path) == Clean(SubSeq(path, 1, LastSep(path)))

\* path without its trailing separators.
RECURSIVE StripTrailingSep(_)
StripTrailingSep(path) ==
    IF path # <<>> /\ path[Len(path)] = "/"
    THEN StripTrailingSep(SubSeq(path, 1, Len(path) - 1))
    ELSE path

\* filepath.Base.
Base(path) ==
    IF path = <<>> THEN <<".">>
    ELSE LET p == StripTrailingSep(path)
             q == SubSeq(p, LastSep(p) + 1, Len(p))
         IN  IF q = <<>> THEN <<"/">> ELSE q

\* ------------------------------------------------------------- configuration
OutputConfig(path, maxSize, maxAge, maxBackups, compress, localTime) ==
    [FilePath |-> path, MaxSize |-> maxSize, MaxAge |-> maxAge,
     MaxBackups |-> maxBackups, Compress |-> compress, LocalTime |-> localTime]

\* NewOutputConfig leaving the numeric fields at their zero value.
NewOutputConfigZero(path) ==
    OutputConfig(path, 0, 0, 0, DefaultCompress, DefaultLocalTime)

\* NewOutputConfig(filePath): the path with the default limits.
NewOutputConfig(path) ==
    OutputConfig(path, DefaultMaxSize, DefaultMaxAge, DefaultMaxBackups,
                 DefaultCompress, DefaultLocalTime)

\* validateConfig: "nil", or the first check that fails.
validateConfigFileOnly(c) ==
    IF c.FilePath = <<>> THEN "nil"
    ELSE IF Dir(c.FilePath) \in {<<>>, <<".">>}
    THEN "directory cannot be empty"
    ELSE IF HasSuffix(c.FilePath, "/") \/ HasSuffix(c.FilePath, "\\")
    THEN "filename cannot be empty"
    ELSE IF Base(c.FilePath) \in {<<>>, <<".">>, <<".", ".">>}
    THEN "filename cannot be empty"
    ELSE IF c.MaxSize <= 0 THEN "max size must be positive"
    ELSE IF c.MaxAge < 0 THEN "max age cannot be negative"
    ELSE IF c.MaxBackups < 0 THEN "max backups cannot be negative"
    ELSE "nil"

validateConfig(c) ==
    IF c.FilePath # <<>> /\ Dir(c.FilePath) \in {<<>>, <<".">>}
    THEN "directory cannot be empty"
    ELSE IF c.FilePath # <<>>
            /\ (HasSuffix(c.FilePath, "/") \/ HasSuffix(c.FilePath, "\\"))
    THEN "filename cannot be empty"
    ELSE IF c.FilePath # <<>>
            /\ Base(c.FilePath) \in {<<>>, <<".">>, <<".", ".">>}
    THEN "filename cannot be empty"
    ELSE IF c.MaxSize <= 0 THEN "max size must be positive"
    ELSE IF c.MaxAge < 0 THEN "max age cannot be negative"
    ELSE IF c.MaxBackups < 0 THEN "max backups cannot be negative"
    ELSE "nil"

\* The configurations the callers use: console only, two files (the first
\* with the 1 MB limit of the tests), and one that does not validate.
ConsoleConfig == NewOutputConfig(EmptyPath)
ConfigA == [NewOutputConfig(PathA) EXCEPT !.MaxSize = 1]
ConfigB == NewOutputConfig(PathB)
BadSizeConfig == [NewOutputConfig(PathA) EXCEPT !.MaxSize = 0]
Configs == {ConsoleConfig, ConfigA, ConfigB, BadSizeConfig}
\* The configurations a manager is created with, and those UpdateConfig is given.
InitConfigs == {ConsoleConfig, ConfigA}
NewConfigs == {ConsoleConfig, ConfigB, BadSizeConfig}
FilePaths == {PathA, PathB}
\* The sizes the log file can have when the manager is created, left by an
\* earlier run: one byte under ConfigA's limit, at the limit.  The file of a
\* path the manager is moved to does not exist.
Sizes == {MB - 1, MB}


\* ------------------------------------------------------------- state
VARIABLES
    config,         \* om.config
    fileWriter,     \* om.fileWriter: an index of handles, or NoHandle
    isFileMode,     \* om.isFileMode
    rotationHooks,  \* om.rotationHooks
    removedHooks,   \* history: the hooks RemoveAllRotationHooks took out of the
                    \* registry and no AddRotationHook has registered since
    mu,             \* om.mu: the caller holding the write lock, the read lockers
    lastRotation,   \* om.lastRotation
    rotationCount,  \* om.rotationCount
    handles,        \* every lumberjack.Logger created so far: its Filename,
                    \* and whether its file is open
    fsize,          \* the size of the file at each path, NoFile when absent
    mkdirs,         \* the directories os.MkdirAll has been called on
    clock,          \* the last value time.Now() returned: every reading is later
    pc,             \* where each caller is in its operation
    loc,            \* the locals of each caller's operation
    attempts,       \* the rotation attempts that reached the primitive, with
                    \* their event, dispatch goroutine and hook goroutines
    stamps,         \* history: stamps[k] is the time stored with count k
    nCalls,         \* operations started so far
    crashed         \* a panic left a goroutine: the process is gone

vars == <<config, fileWriter, isFileMode, rotationHooks, removedHooks, mu, lastRotation,
          rotationCount, handles, fsize, mkdirs, clock, pc, loc, attempts, stamps,
          nCalls, crashed>>

manager == <<config, fileWriter, isFileMode>>
registry == <<rotationHooks, removedHooks>>
stats == <<lastRotation, rotationCount, stamps>>
files == <<handles, fsize, mkdirs>>

NoCaller == "none"

\* The locals of a caller that is in no operation.
NoPre == [config |-> ConsoleConfig, fileWriter |-> NoHandle, isFileMode |-> FALSE,
          rotationHooks |-> <<>>, removedHooks |-> {}, lastRotation |-> ZeroTime,
          rotationCount |-> 0, clock |-> 0, size |-> NoFile, nAttempts |-> 0,
          handles |-> <<>>]
IdleLoc == [op |-> "none", newConfig |-> ConsoleConfig, lj |-> NoHandle,
            fileSize |-> 0, rotationTime |-> ZeroTime, err |-> "nil", recoveryErr |-> "none",
            attempt |-> 0, result |-> "none", rdLast |-> ZeroTime, rdCount |-> 0,
            pre |-> NoPre, concurrent |-> FALSE, overlapped |-> FALSE,
            hookAdded |-> FALSE, om |-> "nil"]

RotationOps == {"Rotate", "ForceRotationIfNeeded"}

\* os.Stat(path).Size(), NoFile when os.Stat fails.
Stat(path) == IF path \in FilePaths THEN fsize[path] ELSE NoFile

\* What the manager held when a call started: the fields the operation can
\* change or depends on.
Snapshot(o) ==
    IF o \in RotationOps \cup {"UpdateConfig"}
    THEN [config |-> config, fileWriter |-> fileWriter, isFileMode |-> isFileMode,
          rotationHooks |-> rotationHooks, removedHooks |-> removedHooks,
          lastRotation |-> lastRotation, rotationCount |-> rotationCount,
          clock |-> clock, size |-> Stat(config.FilePath),
          nAttempts |-> Len(attempts), handles |-> handles]
    ELSE NoPre

\* What a call that another call overlaps keeps of its snapshot: what it is
\* compared with under concurrency (the bound handle, the registry, the
\* statistics, the time).
Overlapped(pre) ==
    [pre EXCEPT !.config = NoPre.config, !.isFileMode = NoPre.isFileMode,
                !.handles = NoPre.handles, !.size = NoPre.size,
                !.nAttempts = NoPre.nAttempts]

\* &lumberjack.Logger{Filename: om.config.FilePath, ...}: no file is opened yet.
NewLogger(c) == [path |-> c.FilePath, live |-> FALSE]

\* NewOutputManager(c) for a configuration that validates and whose directory
\* can be created.
NewOutputManager(c) ==
    /\ validateConfig(c) = "nil"
    /\ config = c
    /\ IF c.FilePath # <<>>
       THEN /\ handles = <<NewLogger(c)>>
            /\ fileWriter = 1
            /\ isFileMode = TRUE
       ELSE /\ handles = <<>>
            /\ fileWriter = NoHandle
            /\ isFileMode = FALSE
    /\ rotationHooks = <<>>
    /\ removedHooks = {}
    /\ mu = [writer |-> NoCaller, readers |-> {}]
    /\ lastRotation = ZeroTime
    /\ rotationCount = 0

Init ==
    /\ \E c \in InitConfigs : NewOutputManager(c)
    /\ \E s \in IF config.FilePath = EmptyPath THEN {NoFile} ELSE Sizes :
        fsize = [p \in FilePaths |-> IF p = config.FilePath THEN s ELSE NoFile]
    /\ mkdirs = IF config.FilePath = EmptyPath THEN {} ELSE {Dir(config.FilePath)}
    /\ clock = 1
    /\ pc = [p \in Callers |-> "idle"]
    /\ loc = [p \in Callers |-> IdleLoc]
    /\ attempts = <<>>
    /\ stamps = <<>>
    /\ nCalls = 0
    /\ crashed = FALSE

\* ------------------------------------------------------------- helpers
Range(s) == {s[i] : i \in 1..Len(s)}

\* The process is alive and no call is at its return statement.  A call that
\* has reached its return statement returns before anything else happens:
\* what is left of it releases its lock and drops its locals, which commutes
\* with every step of the other callers and goroutines.
Running == ~crashed /\ \A q \in Callers : pc[q] # "ret"

\* GetRotationStats and the dispatch reading without om.mu.RLock().
CanRLockUnguarded == TRUE

\* om.mu.Lock() and om.mu.RLock() can be granted.
CanLock == mu.writer = NoCaller /\ mu.readers = {}

CanRLock == mu.writer = NoCaller

\* A caller starts operation o: the locals it begins with.
Begin(p, o) ==
    LET over == \E q \in Callers \ {p} : pc[q] # "idle"
    IN  [IdleLoc EXCEPT !.op = o,
            !.pre = IF over THEN Overlapped(Snapshot(o)) ELSE Snapshot(o),
            !.concurrent = \E q \in Callers \ {p} : loc[q].op \in RotationOps,
            !.overlapped = over]

\* Starting an operation marks the calls in progress as overlapped, and as
\* concurrent with a rotation when it is one.
Overlap(p, o, l) ==
    [q \in Callers |->
        IF q = p THEN l
        ELSE IF pc[q] # "idle"
        THEN [loc[q] EXCEPT !.overlapped = TRUE, !.pre = Overlapped(@),
                            !.concurrent = @ \/ o \in RotationOps]
        ELSE loc[q]]

\* Callers are interchangeable goroutines: when no call is in progress the
\* next one is c1's.
CanStart(p) ==
    /\ Running /\ pc[p] = "idle" /\ nCalls < MaxCalls
    /\ p = "c1" \/ pc["c1"] # "idle"

Start(p, o, l, next) ==
    /\ CanStart(p)
    /\ nCalls' = nCalls + 1
    /\ pc' = [pc EXCEPT ![p] = next]
    /\ loc' = Overlap(p, o, l)

\* The handle table after Close() of handle h: a handle with no open file
\* closes without error; closing an open file can fail and leaves it open.
CloseHandle(h, ok) == [handles EXCEPT ![h].live = IF ok THEN FALSE ELSE @]
CloseOutcomes(h) == IF handles[h].live THEN BOOLEAN ELSE {TRUE}


Goto(p, next, l) ==
    /\ pc' = [pc EXCEPT ![p] = next]
    /\ loc' = [loc EXCEPT ![p] = l]

Returning(p, l, res) == Goto(p, "ret", [l EXCEPT !.result = res])

\* ------------------------------------------------------------- rotation
\* RotateWithRecovery without its check of om.fileWriter.
EntryCheckSkipped(l) == <<"rwr_lock", l>>

\* The first statement of RotateWithRecovery: no handle, no rotation.
EntryCheck(l) ==
    IF fileWriter = NoHandle
    THEN <<"ret", [l EXCEPT !.result = "NoFileConfigured"]>>
    ELSE <<"rwr_lock", l>>

\* Rotate() is RotateWithRecovery().
Rotate(p) ==
    /\ LET e == EntryCheck(Begin(p, "Rotate"))
       IN  Start(p, "Rotate", e[2], e[1])
    /\ UNCHANGED <<manager, registry, mu, stats, files, clock, attempts, crashed>>

\* om.mu.Lock(), then the type assertion on om.fileWriter.
RwrLock(p) ==
    /\ Running /\ pc[p] = "rwr_lock"
    /\ CanLock
    /\ mu' = [mu EXCEPT !.writer = p]
    /\ IF fileWriter = NoHandle
       THEN Returning(p, loc[p], "NotSupported")
       ELSE Goto(p, "rwr_rotate", [loc[p] EXCEPT !.lj = fileWriter])
    /\ UNCHANGED <<manager, registry, stats, files, clock, attempts, nCalls,
                   crashed>>

\* The best-effort os.Stat, time.Now() and lj.Rotate(): the primitive succeeds
\* (a new empty file is open) or fails (no file is open).
RwrRotate(p) ==
    /\ Running /\ pc[p] = "rwr_rotate"
    /\ \E ok \in BOOLEAN :
        LET s == Stat(config.FilePath)
            t == clock + 1
            path == handles[loc[p].lj].path
        IN  /\ clock' = t
            /\ handles' = [handles EXCEPT ![loc[p].lj].live = ok]
            /\ fsize' = IF ok /\ path \in FilePaths
                        THEN [fsize EXCEPT ![path] = 0] ELSE fsize
            /\ Goto(p, "rwr_commit",
                    [loc[p] EXCEPT !.fileSize = IF s = NoFile THEN 0 ELSE s,
                                   !.rotationTime = t,
                                   !.err = IF ok THEN "nil" ELSE "rotate failed"])
    /\ UNCHANGED <<manager, registry, mu, stats, mkdirs, attempts, nCalls, crashed>>

\* The event built with the size os.Stat reports after the primitive.
RotationEventSizeAfter(l) ==
    [Timestamp |-> l.rotationTime, OldFile |-> config.FilePath,
     NewFile |-> config.FilePath,
     FileSize |-> IF Stat(config.FilePath) = NoFile THEN 0 ELSE Stat(config.FilePath),
     Success |-> l.err = "nil", Error |-> l.err]

\* event := RotationEvent{...}: the time and the size are those read before
\* lj.Rotate(), the path is om.config.FilePath.
RotationEvent(l) ==
    [Timestamp |-> l.rotationTime, OldFile |-> config.FilePath,
     NewFile |-> config.FilePath, FileSize |-> l.fileSize,
     Success |-> l.err = "nil", Error |-> l.err]


\* A rotation attempt: its event, what the call saw (the handle it rotated,
\* the hooks registered when the call started and when the primitive ran,
\* the hooks removed before it started, whether a hook was registered since),
\* what attemptRecovery returned ("none" when it was not called),
\* and its goroutines: the dispatch ("spawned" by the go statement, "done"
\* once the hooks are copied) and one per copied hook.
NewAttempt(l) ==
    [event |-> RotationEvent(l), lj |-> l.lj,
     startHooks |-> l.pre.rotationHooks, primHooks |-> rotationHooks,
     startRemoved |-> l.pre.removedHooks, hookAdded |-> l.hookAdded,
     recovery |-> "none", dispatch |-> "spawned", snap |-> <<>>,
     hook |-> [h \in Hooks |-> "none"]]

\* The count incremented whatever the primitive returned.
RotationCountAlways(err) == rotationCount + 1

\* The time of a successful rotation never stored.
LastRotationStale(err, rotationTime) == lastRotation

\* The time of the last rotation cleared by a failed primitive.
LastRotationCleared(err, rotationTime) ==
    IF err = "nil" THEN rotationTime ELSE ZeroTime

\* if err == nil { om.lastRotation = rotationTime; om.rotationCount++ }
LastRotationAfter(err, rotationTime) ==
    IF err = "nil" THEN rotationTime ELSE lastRotation

RotationCountAfter(err) ==
    IF err = "nil" THEN rotationCount + 1 ELSE rotationCount

\* A recovered rotation failure reported as success.
RotationResultHidesFailure(err, recoveryErr) ==
    IF err = "nil" \/ recoveryErr = "nil" THEN "nil"
    ELSE "RotationAndRecoveryFailed"

\* What RotateWithRecovery returns, given the primitive's error and
\* attemptRecovery's ("none" when recovery was not attempted).
RotationResult(err, recoveryErr) ==
    IF err = "nil" THEN "nil"
    ELSE IF recoveryErr # "nil" THEN "RotationAndRecoveryFailed"
    ELSE "RotationFailedRecovered"

\* The statistics written without mutual exclusion: the count is the one
\* read when the call started, plus one.
RwrCommitLostUpdate(p) ==
    /\ Running /\ pc[p] = "rwr_commit"
    /\ lastRotation' = LastRotationAfter(loc[p].err, loc[p].rotationTime)
    /\ rotationCount' = IF loc[p].err = "nil" THEN loc[p].pre.rotationCount + 1
                        ELSE rotationCount
    /\ stamps' = IF rotationCount' # rotationCount
                 THEN Append(stamps, lastRotation') ELSE stamps
    /\ attempts' = Append(attempts, NewAttempt(loc[p]))
    /\ LET l == [loc[p] EXCEPT !.attempt = Len(attempts) + 1]
       IN  IF loc[p].err = "nil"
           THEN Returning(p, l, RotationResult(l.err, l.recoveryErr))
           ELSE Goto(p, "rwr_recover", l)
    /\ UNCHANGED <<manager, registry, mu, files, clock, nCalls, crashed>>

\* The event is built, the statistics are written and the dispatch goroutine
\* is started: go om.triggerRotationHooks(event).  All of it happens under the
\* write lock; a successful rotation returns here.
RwrCommit(p) ==
    /\ Running /\ pc[p] = "rwr_commit"
    /\ lastRotation' = LastRotationAfter(loc[p].err, loc[p].rotationTime)
    /\ rotationCount' = RotationCountAfter(loc[p].err)
    /\ stamps' = IF rotationCount' # rotationCount
                 THEN Append(stamps, lastRotation') ELSE stamps
    /\ attempts' = Append(attempts, NewAttempt(loc[p]))
    /\ LET l == [loc[p] EXCEPT !.attempt = Len(attempts) + 1]
       IN  IF loc[p].err = "nil"
           THEN Returning(p, l, RotationResult(l.err, l.recoveryErr))
           ELSE Goto(p, "rwr_recover", l)
    /\ UNCHANGED <<manager, registry, mu, files, clock, nCalls, crashed>>

\* attemptRecovery taking om.mu.Lock() itself, inside RotateWithRecovery.
RwrRecoverRelocks(p) ==
    /\ Running /\ pc[p] = "rwr_recover"
    /\ CanLock
    /\ mkdirs' = mkdirs \cup {Dir(config.FilePath)}
    /\ \E closed \in IF fileWriter = NoHandle THEN {TRUE} ELSE CloseOutcomes(fileWriter),
          mkdir \in BOOLEAN :
        LET hs == IF fileWriter = NoHandle THEN handles
                  ELSE CloseHandle(fileWriter, closed)
        IN  /\ handles' = IF mkdir THEN Append(hs, NewLogger(config)) ELSE hs
            /\ fileWriter' = IF mkdir THEN Len(handles) + 1 ELSE fileWriter
            /\ LET recoveryErr == IF mkdir THEN "nil" ELSE "mkdir failed"
               IN  /\ attempts' = [attempts EXCEPT ![loc[p].attempt].recovery = recoveryErr]
                   /\ Returning(p, [loc[p] EXCEPT !.recoveryErr = recoveryErr],
                                 RotationResult(loc[p].err, recoveryErr))
    /\ UNCHANGED <<config, isFileMode, registry, mu, stats, fsize, clock,
                   nCalls, crashed>>

\* attemptRecovery creating a handle that it does not bind: the manager
\* keeps the handle whose rotation failed.
RwrRecoverKeepsHandle(p) ==
    /\ Running /\ pc[p] = "rwr_recover"
    /\ mkdirs' = mkdirs \cup {Dir(config.FilePath)}
    /\ \E closed \in IF fileWriter = NoHandle THEN {TRUE} ELSE CloseOutcomes(fileWriter),
          mkdir \in BOOLEAN :
        LET hs == IF fileWriter = NoHandle THEN handles
                  ELSE CloseHandle(fileWriter, closed)
        IN  /\ handles' = IF mkdir THEN Append(hs, NewLogger(config)) ELSE hs
            /\ fileWriter' = fileWriter
            /\ LET recoveryErr == IF mkdir THEN "nil" ELSE "mkdir failed"
               IN  /\ attempts' = [attempts EXCEPT ![loc[p].attempt].recovery = recoveryErr]
                   /\ Returning(p, [loc[p] EXCEPT !.recoveryErr = recoveryErr],
                                 RotationResult(loc[p].err, recoveryErr))
    /\ UNCHANGED <<config, isFileMode, registry, mu, stats, fsize, clock,
                   nCalls, crashed>>

\* attemptRecovery: Close() of the bound handle, its error dropped, then
\* setupFileOutput, which fails when the directory cannot be created.
RwrRecover(p) ==
    /\ Running /\ pc[p] = "rwr_recover"
    /\ mkdirs' = mkdirs \cup {Dir(config.FilePath)}
    /\ \E closed \in IF fileWriter = NoHandle THEN {TRUE} ELSE CloseOutcomes(fileWriter),
          mkdir \in BOOLEAN :
        LET hs == IF fileWriter = NoHandle THEN handles
                  ELSE CloseHandle(fileWriter, closed)
        IN  /\ handles' = IF mkdir THEN Append(hs, NewLogger(config)) ELSE hs
            /\ fileWriter' = IF mkdir THEN Len(handles) + 1 ELSE fileWriter
            /\ LET recoveryErr == IF mkdir THEN "nil" ELSE "mkdir failed"
               IN  /\ attempts' = [attempts EXCEPT ![loc[p].attempt].recovery = recoveryErr]
                   /\ Returning(p, [loc[p] EXCEPT !.recoveryErr = recoveryErr],
                                 RotationResult(loc[p].err, recoveryErr))
    /\ UNCHANGED <<config, isFileMode, registry, mu, stats, fsize, clock,
                   nCalls, crashed>>

\* A call that waits for the running hooks before it returns.
ReturnWaitsForHooks(p) ==
    /\ ~crashed /\ pc[p] = "ret"
    /\ \A a \in DOMAIN attempts, h \in Hooks : attempts[a].hook[h] # "running"
    /\ mu' = [writer |-> IF mu.writer = p THEN NoCaller ELSE mu.writer,
              readers |-> mu.readers \ {p}]
    /\ pc' = [pc EXCEPT ![p] = "idle"]
    /\ loc' = [loc EXCEPT ![p] = IdleLoc]
    /\ UNCHANGED <<manager, registry, stats, files, clock, attempts, nCalls,
                   crashed>>

\* The call returns: its deferred Unlock / RUnlock runs.
Return(p) ==
    /\ ~crashed /\ pc[p] = "ret"
    /\ mu' = [writer |-> IF mu.writer = p THEN NoCaller ELSE mu.writer,
              readers |-> mu.readers \ {p}]
    /\ Goto(p, "idle", IdleLoc)
    /\ UNCHANGED <<manager, registry, stats, files, clock, attempts, nCalls,
                   crashed>>


\* ------------------------------------------------------------- ForceRotationIfNeeded
\* The threshold compared with > in place of >=.
NeedsRotationAbove(size, c) == size > c.MaxSize * MB

\* stat.Size() >= int64(om.config.MaxSize) * 1024 * 1024
NeedsRotation(size, c) == size >= c.MaxSize * MB

\* ForceRotationIfNeeded returning the error of os.Stat.
ForceRotationStatError(p) ==
    /\ LET l == Begin(p, "ForceRotationIfNeeded")
           s == Stat(config.FilePath)
       IN  IF ~isFileMode \/ fileWriter = NoHandle
           THEN Start(p, "ForceRotationIfNeeded", [l EXCEPT !.result = "nil"], "ret")
           ELSE IF s = NoFile
           THEN Start(p, "ForceRotationIfNeeded", [l EXCEPT !.result = "StatFailed"], "ret")
           ELSE IF NeedsRotation(s, config)
           THEN LET e == EntryCheck(l) IN Start(p, "ForceRotationIfNeeded", e[2], e[1])
           ELSE Start(p, "ForceRotationIfNeeded", [l EXCEPT !.result = "nil"], "ret")
    /\ UNCHANGED <<manager, registry, mu, stats, files, clock, attempts, crashed>>

\* Nothing to do in console mode, when os.Stat fails or under the limit;
\* otherwise RotateWithRecovery is called.
ForceRotationIfNeeded(p) ==
    /\ LET l == Begin(p, "ForceRotationIfNeeded")
           s == Stat(config.FilePath)
       IN  IF ~isFileMode \/ fileWriter = NoHandle
           THEN Start(p, "ForceRotationIfNeeded", [l EXCEPT !.result = "nil"], "ret")
           ELSE IF s # NoFile /\ NeedsRotation(s, config)
           THEN LET e == EntryCheck(l) IN Start(p, "ForceRotationIfNeeded", e[2], e[1])
           ELSE Start(p, "ForceRotationIfNeeded", [l EXCEPT !.result = "nil"], "ret")
    /\ UNCHANGED <<manager, registry, mu, stats, files, clock, attempts, crashed>>

\* ------------------------------------------------------------- UpdateConfig
\* UpdateConfig dropping the error of Close: the writer is unbound and
\* replaced whether or not its file was closed.
UpdateConfigIgnoresClose(p, c) ==
    /\ LET l == [Begin(p, "UpdateConfig") EXCEPT !.newConfig = c]
       IN  IF validateConfig(c) # "nil"
           THEN /\ Start(p, "UpdateConfig", [l EXCEPT !.result = "InvalidConfig"], "ret")
                /\ UNCHANGED <<fileWriter, isFileMode, handles>>
           ELSE IF fileWriter = NoHandle
           THEN /\ Start(p, "UpdateConfig", l, "uc_set")
                /\ UNCHANGED <<fileWriter, isFileMode, handles>>
           ELSE \E ok \in CloseOutcomes(fileWriter) :
                /\ handles' = CloseHandle(fileWriter, ok)
                /\ fileWriter' = NoHandle
                /\ isFileMode' = FALSE
                /\ Start(p, "UpdateConfig", l, "uc_set")
    /\ UNCHANGED <<config, registry, mu, stats, fsize, mkdirs, clock, attempts, crashed>>

\* UpdateConfig without the validation of newConfig.
UpdateConfigUnvalidated(p, c) ==
    /\ LET l == [Begin(p, "UpdateConfig") EXCEPT !.newConfig = c]
       IN  IF fileWriter = NoHandle
           THEN /\ Start(p, "UpdateConfig", l, "uc_set")
                /\ UNCHANGED <<fileWriter, isFileMode, handles>>
           ELSE \E ok \in CloseOutcomes(fileWriter) :
                /\ handles' = CloseHandle(fileWriter, ok)
                /\ IF ok
                   THEN /\ fileWriter' = NoHandle
                        /\ isFileMode' = FALSE
                        /\ Start(p, "UpdateConfig", l, "uc_set")
                   ELSE /\ UNCHANGED <<fileWriter, isFileMode>>
                        /\ Start(p, "UpdateConfig", [l EXCEPT !.result = "CloseFailed"],
                                 "ret")
    /\ UNCHANGED <<config, registry, mu, stats, fsize, mkdirs, clock, attempts, crashed>>

\* UpdateConfig closing the current writer before it validates newConfig.
UpdateConfigClosesFirst(p, c) ==
    /\ LET l == [Begin(p, "UpdateConfig") EXCEPT !.newConfig = c]
           next == IF validateConfig(c) # "nil" THEN "ret" ELSE "uc_set"
           res == IF validateConfig(c) # "nil" THEN "InvalidConfig" ELSE "none"
       IN  IF fileWriter = NoHandle
           THEN /\ Start(p, "UpdateConfig", [l EXCEPT !.result = res], next)
                /\ UNCHANGED <<fileWriter, isFileMode, handles>>
           ELSE \E ok \in CloseOutcomes(fileWriter) :
                /\ handles' = CloseHandle(fileWriter, ok)
                /\ IF ok
                   THEN /\ fileWriter' = NoHandle
                        /\ isFileMode' = FALSE
                        /\ Start(p, "UpdateConfig", [l EXCEPT !.result = res], next)
                   ELSE /\ UNCHANGED <<fileWriter, isFileMode>>
                        /\ Start(p, "UpdateConfig", [l EXCEPT !.result = "CloseFailed"],
                                 "ret")
    /\ UNCHANGED <<config, registry, mu, stats, fsize, mkdirs, clock, attempts, crashed>>

\* The new configuration is validated on a temporary manager; then the
\* current writer, if any, is closed and unbound.
UpdateConfig(p, c) ==
    /\ LET l == [Begin(p, "UpdateConfig") EXCEPT !.newConfig = c]
       IN  IF validateConfig(c) # "nil"
           THEN /\ Start(p, "UpdateConfig", [l EXCEPT !.result = "InvalidConfig"], "ret")
                /\ UNCHANGED <<fileWriter, isFileMode, handles>>
           ELSE IF fileWriter = NoHandle
           THEN /\ Start(p, "UpdateConfig", l, "uc_set")
                /\ UNCHANGED <<fileWriter, isFileMode, handles>>
           ELSE \E ok \in CloseOutcomes(fileWriter) :
                /\ handles' = CloseHandle(fileWriter, ok)
                /\ IF ok
                   THEN /\ fileWriter' = NoHandle
                        /\ isFileMode' = FALSE
                        /\ Start(p, "UpdateConfig", l, "uc_set")
                   ELSE /\ UNCHANGED <<fileWriter, isFileMode>>
                        /\ Start(p, "UpdateConfig", [l EXCEPT !.result = "CloseFailed"],
                                 "ret")
    /\ UNCHANGED <<config, registry, mu, stats, fsize, mkdirs, clock, attempts, crashed>>

\* UpdateConfig starting over with the new destination: the statistics and
\* the hook registry are reset.
UcSetResets(p) ==
    /\ Running /\ pc[p] = "uc_set"
    /\ config' = loc[p].newConfig
    /\ mkdirs' = IF loc[p].newConfig.FilePath = <<>> THEN mkdirs
                 ELSE mkdirs \cup {Dir(loc[p].newConfig.FilePath)}
    /\ rotationHooks' = <<>>
    /\ removedHooks' = removedHooks \cup Range(rotationHooks)
    /\ lastRotation' = ZeroTime
    /\ rotationCount' = 0
    /\ stamps' = <<>>
    /\ IF loc[p].newConfig.FilePath = <<>>
       THEN /\ UNCHANGED <<handles, fileWriter, isFileMode>>
            /\ Returning(p, loc[p], "nil")
       ELSE \E mkdir \in BOOLEAN :
            IF mkdir
            THEN /\ handles' = Append(handles, NewLogger(loc[p].newConfig))
                 /\ fileWriter' = Len(handles) + 1
                 /\ isFileMode' = TRUE
                 /\ Returning(p, loc[p], "nil")
            ELSE /\ UNCHANGED <<handles, fileWriter, isFileMode>>
                 /\ Returning(p, loc[p], "SetupFailed")
    /\ UNCHANGED <<mu, fsize, clock, attempts, nCalls, crashed>>

\* UpdateConfig binding the new handle without om.isFileMode = true.
UcSetWithoutMode(p) ==
    /\ Running /\ pc[p] = "uc_set"
    /\ config' = loc[p].newConfig
    /\ mkdirs' = IF loc[p].newConfig.FilePath = <<>> THEN mkdirs
                 ELSE mkdirs \cup {Dir(loc[p].newConfig.FilePath)}
    /\ IF loc[p].newConfig.FilePath = <<>>
       THEN /\ UNCHANGED <<handles, fileWriter, isFileMode>>
            /\ Returning(p, loc[p], "nil")
       ELSE \E mkdir \in BOOLEAN :
            IF mkdir
            THEN /\ handles' = Append(handles, NewLogger(loc[p].newConfig))
                 /\ fileWriter' = Len(handles) + 1
                 /\ UNCHANGED isFileMode
                 /\ Returning(p, loc[p], "nil")
            ELSE /\ UNCHANGED <<handles, fileWriter, isFileMode>>
                 /\ Returning(p, loc[p], "SetupFailed")
    /\ UNCHANGED <<registry, mu, stats, fsize, clock, attempts, nCalls, crashed>>

\* om.config = newConfig; then, for a file path, setupFileOutput (which fails
\* when the directory cannot be created) and om.isFileMode = true.
UcSet(p) ==
    /\ Running /\ pc[p] = "uc_set"
    /\ config' = loc[p].newConfig
    /\ mkdirs' = IF loc[p].newConfig.FilePath = <<>> THEN mkdirs
                 ELSE mkdirs \cup {Dir(loc[p].newConfig.FilePath)}
    /\ IF loc[p].newConfig.FilePath = <<>>
       THEN /\ UNCHANGED <<handles, fileWriter, isFileMode>>
            /\ Returning(p, loc[p], "nil")
       ELSE \E mkdir \in BOOLEAN :
            IF mkdir
            THEN /\ handles' = Append(handles, NewLogger(loc[p].newConfig))
                 /\ fileWriter' = Len(handles) + 1
                 /\ isFileMode' = TRUE
                 /\ Returning(p, loc[p], "nil")
            ELSE /\ UNCHANGED <<handles, fileWriter, isFileMode>>
                 /\ Returning(p, loc[p], "SetupFailed")
    /\ UNCHANGED <<registry, mu, stats, fsize, clock, attempts, nCalls, crashed>>

\* ------------------------------------------------------------- GetWriter
\* The bound handle in file mode, os.Stdout otherwise.
GetWriter == IF isFileMode /\ fileWriter # NoHandle THEN fileWriter ELSE "stdout"

\* GetMultiWriter returning the file handle alone in file mode.
GetMultiWriterFileOnly ==
    IF isFileMode /\ fileWriter # NoHandle
    THEN [console |-> FALSE, file |-> fileWriter]
    ELSE [console |-> TRUE, file |-> NoHandle]

\* GetMultiWriter: the writers a write to the returned stream is passed on
\* to, io.MultiWriter(os.Stdout, om.fileWriter) in file mode, os.Stdout alone
\* otherwise.
GetMultiWriter ==
    IF isFileMode /\ fileWriter # NoHandle
    THEN [console |-> TRUE, file |-> fileWriter]
    ELSE [console |-> TRUE, file |-> NoHandle]

\* ------------------------------------------------------------- queries
IsFileMode == isFileMode

GetFilePath == config.FilePath

\* GetCurrentFileSize without its check of om.isFileMode.
GetCurrentFileSizeUnchecked ==
    IF Stat(config.FilePath) = NoFile
    THEN [size |-> 0, err |-> "StatFailed"]
    ELSE [size |-> Stat(config.FilePath), err |-> "nil"]

\* GetCurrentFileSize: the size os.Stat reports for the configured path, an
\* error outside file mode and when os.Stat fails.
GetCurrentFileSize ==
    IF ~isFileMode THEN [size |-> 0, err |-> "NotInFileMode"]
    ELSE IF Stat(config.FilePath) = NoFile
    THEN [size |-> 0, err |-> "StatFailed"]
    ELSE [size |-> Stat(config.FilePath), err |-> "nil"]

\* ------------------------------------------------------------- Close
\* Close unbinding the handle it closed and leaving file mode.
CloseUnbinds(p) ==
    /\ IF fileWriter = NoHandle
       THEN /\ Start(p, "Close", [Begin(p, "Close") EXCEPT !.result = "nil"], "ret")
            /\ UNCHANGED <<manager, handles>>
       ELSE \E ok \in CloseOutcomes(fileWriter) :
            /\ handles' = CloseHandle(fileWriter, ok)
            /\ fileWriter' = IF ok THEN NoHandle ELSE fileWriter
            /\ isFileMode' = IF ok THEN FALSE ELSE isFileMode
            /\ UNCHANGED config
            /\ Start(p, "Close",
                     [Begin(p, "Close") EXCEPT !.result = IF ok THEN "nil" ELSE "CloseFailed"],
                     "ret")
    /\ UNCHANGED <<registry, mu, stats, fsize, mkdirs, clock, attempts, crashed>>

\* Close dropping the error of om.fileWriter.Close().
CloseDropsError(p) ==
    /\ IF fileWriter = NoHandle
       THEN /\ Start(p, "Close", [Begin(p, "Close") EXCEPT !.result = "nil"], "ret")
            /\ UNCHANGED handles
       ELSE \E ok \in CloseOutcomes(fileWriter) :
            /\ handles' = CloseHandle(fileWriter, ok)
            /\ Start(p, "Close", [Begin(p, "Close") EXCEPT !.result = "nil"], "ret")
    /\ UNCHANGED <<manager, registry, mu, stats, fsize, mkdirs, clock, attempts, crashed>>

\* if om.fileWriter != nil { return om.fileWriter.Close() }; return nil
Close(p) ==
    /\ IF fileWriter = NoHandle
       THEN /\ Start(p, "Close", [Begin(p, "Close") EXCEPT !.result = "nil"], "ret")
            /\ UNCHANGED handles
       ELSE \E ok \in CloseOutcomes(fileWriter) :
            /\ handles' = CloseHandle(fileWriter, ok)
            /\ Start(p, "Close",
                     [Begin(p, "Close") EXCEPT !.result = IF ok THEN "nil" ELSE "CloseFailed"],
                     "ret")
    /\ UNCHANGED <<manager, registry, mu, stats, fsize, mkdirs, clock, attempts, crashed>>

\* ------------------------------------------------------------- hook registry
\* A call that changes nothing but the call count.
Done(p) ==
    /\ CanStart(p)
    /\ nCalls' = nCalls + 1
    /\ loc' = Overlap(p, "none", loc[p])
    /\ UNCHANGED pc

\* The rotation calls in progress and the attempts whose dispatch has not
\* copied the registry yet, marked as having seen a registration.
MarkAdded(l) == IF l.op \in RotationOps THEN [l EXCEPT !.hookAdded = TRUE] ELSE l
MarkAddedAttempt(t) ==
    IF t.dispatch = "spawned" THEN [t EXCEPT !.hookAdded = TRUE] ELSE t

\* The dispatch ranging over om.rotationHooks itself in place of a copy: a
\* hook registered after the dispatch is run for the attempt too.
AddRotationHookSharedSlice(p, h) ==
    /\ h \notin Range(rotationHooks)
    /\ CanLock
    /\ rotationHooks' = Append(rotationHooks, h)
    /\ removedHooks' = removedHooks \ {h}
    /\ CanStart(p)
    /\ nCalls' = nCalls + 1
    /\ loc' = [q \in Callers |-> MarkAdded(Overlap(p, "none", loc[p])[q])]
    /\ attempts' = [a \in DOMAIN attempts |->
                      IF attempts[a].dispatch = "done" /\ attempts[a].hook[h] = "none"
                      THEN [attempts[a] EXCEPT !.snap = Append(@, h),
                                               !.hook[h] = "running"]
                      ELSE MarkAddedAttempt(attempts[a])]
    /\ UNCHANGED <<manager, mu, stats, files, clock, pc, crashed>>

\* Lock, append, Unlock.  Every registration is a new callback: h is not
\* registered already.
AddRotationHook(p, h) ==
    /\ h \notin Range(rotationHooks)
    /\ CanLock
    /\ rotationHooks' = Append(rotationHooks, h)
    /\ removedHooks' = removedHooks \ {h}
    /\ CanStart(p)
    /\ nCalls' = nCalls + 1
    /\ loc' = [q \in Callers |-> MarkAdded(Overlap(p, "none", loc[p])[q])]
    /\ attempts' = [a \in DOMAIN attempts |-> MarkAddedAttempt(attempts[a])]
    /\ UNCHANGED <<manager, mu, stats, files, clock, pc, crashed>>

\* RemoveAllRotationHooks truncating the registry to its first hook.
RemoveAllButFirst(p) ==
    /\ CanLock
    /\ rotationHooks' = IF rotationHooks = <<>> THEN <<>> ELSE <<Head(rotationHooks)>>
    /\ removedHooks' = removedHooks \cup Range(rotationHooks)
    /\ Done(p)
    /\ UNCHANGED <<manager, mu, stats, files, clock, attempts, crashed>>

\* Lock, om.rotationHooks = nil, Unlock.
RemoveAllRotationHooks(p) ==
    /\ CanLock
    /\ rotationHooks' = <<>>
    /\ removedHooks' = removedHooks \cup Range(rotationHooks)
    /\ Done(p)
    /\ UNCHANGED <<manager, mu, stats, files, clock, attempts, crashed>>

\* ------------------------------------------------------------- GetRotationStats
\* om.mu.RLock(), then om.lastRotation is read.
GetRotationStats(p) ==
    /\ CanRLock
    /\ mu' = [mu EXCEPT !.readers = @ \cup {p}]
    /\ Start(p, "GetRotationStats",
             [Begin(p, "GetRotationStats") EXCEPT !.rdLast = lastRotation], "gs_count")
    /\ UNCHANGED <<manager, registry, stats, files, clock, attempts, crashed>>

\* om.rotationCount is read.
GsCount(p) ==
    /\ Running /\ pc[p] = "gs_count"
    /\ Returning(p, [loc[p] EXCEPT !.rdCount = rotationCount], "nil")
    /\ UNCHANGED <<manager, registry, mu, stats, files, clock, attempts,
                   nCalls, crashed>>

\* ------------------------------------------------------------- dispatch
\* triggerRotationHooks starting the hooks before its RUnlock: the dispatch
\* goroutine keeps the read lock while the hooks run.
DispatchHoldingLock(a) ==
    /\ Running /\ attempts[a].dispatch = "spawned"
    /\ CanRLock
    /\ mu' = [mu EXCEPT !.readers = @ \cup {"dispatch"}]
    /\ attempts' = [attempts EXCEPT
            ![a].dispatch = "done",
            ![a].snap = rotationHooks,
            ![a].hook = [h \in Hooks |->
                            IF h \in Range(rotationHooks) THEN "running" ELSE "none"]]
    /\ UNCHANGED <<manager, registry, stats, files, clock, pc, loc, nCalls,
                   crashed>>

\* triggerRotationHooks in its own goroutine: the registry is copied under
\* the read lock, then one goroutine is started per copied hook, which runs
\* h(event).
Dispatch(a) ==
    /\ Running /\ attempts[a].dispatch = "spawned"
    /\ CanRLock
    /\ attempts' = [attempts EXCEPT
            ![a].dispatch = "done",
            ![a].snap = rotationHooks,
            ![a].hook = [h \in Hooks |->
                            IF h \in Range(rotationHooks) THEN "running" ELSE "none"]]
    /\ UNCHANGED <<manager, registry, mu, stats, files, clock, pc, loc, nCalls,
                   crashed>>

\* The body of a hook calls om.GetRotationStats(), as statsHook does: RLock,
\* the two reads, RUnlock, all in the hook's goroutine.
HookGetsStats(a, h) ==
    /\ Running /\ attempts[a].hook[h] = "running"
    /\ CanRLock
    /\ attempts' = [attempts EXCEPT ![a].hook[h] = "called"]
    /\ UNCHANGED <<manager, registry, mu, stats, files, clock, pc, loc, nCalls,
                   crashed>>

\* The body of a hook calls om.RemoveAllRotationHooks(): Lock, the registry
\* is emptied, Unlock.
HookRemovesHooks(a, h) ==
    /\ Running /\ attempts[a].hook[h] = "running"
    /\ CanLock
    /\ rotationHooks' = <<>>
    /\ removedHooks' = removedHooks \cup Range(rotationHooks)
    /\ attempts' = [attempts EXCEPT ![a].hook[h] = "called"]
    /\ UNCHANGED <<manager, mu, stats, files, clock, pc, loc, nCalls, crashed>>

\* h(event) returns.
HookReturn(a, h) ==
    /\ Running /\ attempts[a].hook[h] \in {"running", "called"} /\ h \notin PanicHooks
    /\ attempts' = [attempts EXCEPT ![a].hook[h] = "returned"]
    /\ UNCHANGED <<manager, registry, mu, stats, files, clock, pc, loc, nCalls,
                   crashed>>

\* The hook goroutine without its deferred recover(): the panic ends the process.
HookPanicUnrecovered(a, h) ==
    /\ Running /\ attempts[a].hook[h] = "running" /\ h \in PanicHooks
    /\ attempts' = [attempts EXCEPT ![a].hook[h] = "panicked"]
    /\ crashed' = TRUE
    /\ UNCHANGED <<manager, registry, mu, stats, files, clock, pc, loc, nCalls>>

\* h(event) panics: the deferred recover() of its goroutine stops the panic.
HookPanic(a, h) ==
    /\ Running /\ attempts[a].hook[h] = "running" /\ h \in PanicHooks
    /\ attempts' = [attempts EXCEPT ![a].hook[h] = "panicked"]
    /\ UNCHANGED <<manager, registry, mu, stats, files, clock, pc, loc, nCalls,
                   crashed>>

\* ------------------------------------------------------------- specification
CallerStep(p) ==
    \/ RwrLock(p) \/ RwrRotate(p) \/ RwrCommit(p) \/ RwrRecover(p)
    \/ UcSet(p) \/ GsCount(p)

Call(p) ==
    \/ Rotate(p) \/ ForceRotationIfNeeded(p)
    \/ \E c \in NewConfigs : UpdateConfig(p, c)
    \/ Close(p)
    \/ \E h \in Hooks : AddRotationHook(p, h)
    \/ RemoveAllRotationHooks(p) \/ GetRotationStats(p)

Next ==
    \/ \E p \in Callers : Call(p)
    \/ \E p \in Callers : CallerStep(p)
    \/ \E p \in Callers : Return(p)
    \/ \E a \in DOMAIN attempts : Dispatch(a)
    \/ \E a \in DOMAIN attempts, h \in Hooks : HookReturn(a, h)
    \/ \E a \in DOMAIN attempts, h \in Hooks : HookPanic(a, h)

Spec == Init /\ [][Next]_vars


\* The calls of the hook goroutines are not part of FairSpec's fairness: a
\* hook may never return.  A caller that can take a step does take it, which
\* is what the Go scheduler and sync.RWMutex give a runnable goroutine.
LiveCall(p) ==
    \/ Rotate(p)
    \/ \E h \in Hooks : AddRotationHook(p, h)
    \/ RemoveAllRotationHooks(p) \/ GetRotationStats(p)

LiveStep(p) ==
    \/ RwrLock(p) \/ RwrRotate(p) \/ RwrCommit(p) \/ RwrRecover(p) \/ GsCount(p)

NextLive ==
    \/ \E p \in Callers : LiveCall(p)
    \/ \E p \in Callers : LiveStep(p)
    \/ \E p \in Callers : Return(p)
    \/ \E a \in DOMAIN attempts : Dispatch(a)
    \/ \E a \in DOMAIN attempts, h \in Hooks : HookReturn(a, h)
    \/ \E a \in DOMAIN attempts, h \in Hooks : HookPanic(a, h)

FairSpec ==
    /\ Init /\ [][NextLive]_vars
    /\ \A p \in Callers : WF_vars(LiveStep(p) \/ Return(p))

\* Every operation of the manager.  The scheduler runs some goroutine that
\* can run: a call in progress, or a dispatch goroutine, which
\* triggerRotationHooks starts with a go statement and which blocks on
\* om.mu.RLock() only.  A caller need not make another call, and at most
\* MaxTermCalls calls are made.  The hook goroutines
\* take no part: started by the dispatch, they share nothing with the calls.
TermNext ==
    \/ \E p \in Callers : nCalls < MaxTermCalls /\ Call(p)
    \/ \E p \in Callers : CallerStep(p)
    \/ \E p \in Callers : Return(p)
    \/ \E a \in DOMAIN attempts : Dispatch(a)

TermStep ==
    \/ \E p \in Callers : CallerStep(p) \/ Return(p)
    \/ \E a \in DOMAIN attempts : Dispatch(a)

TermSpec == Init /\ [][TermNext]_vars /\ WF_vars(TermStep)

\* One goroutine calls the manager: each call returns before the next starts.
\* The dispatch and hook goroutines of its rotations run beside it.
SeqNext ==
    \/ Call("c1")
    \/ CallerStep("c1")
    \/ Return("c1")
    \/ \E a \in DOMAIN attempts : Dispatch(a)
    \/ \E a \in DOMAIN attempts, h \in Hooks : HookReturn(a, h)
    \/ \E a \in DOMAIN attempts, h \in Hooks : HookPanic(a, h)

SeqSpec == Init /\ [][SeqNext]_vars

\* Rotations whose hooks call back into the manager.
HookNext ==
    \/ \E p \in Callers : Rotate(p)
    \/ \E p \in Callers, h \in Hooks : AddRotationHook(p, h)
    \/ \E p \in Callers : RwrLock(p) \/ RwrRotate(p) \/ RwrCommit(p) \/ RwrRecover(p)
    \/ \E p \in Callers : Return(p)
    \/ \E a \in DOMAIN attempts : Dispatch(a)
    \/ \E a \in DOMAIN attempts, h \in Hooks : HookGetsStats(a, h)
    \/ \E a \in DOMAIN attempts, h \in Hooks : HookRemovesHooks(a, h)
    \/ \E a \in DOMAIN attempts, h \in Hooks : HookReturn(a, h)
    \/ \E a \in DOMAIN attempts, h \in Hooks : HookPanic(a, h)

HookSpec == Init /\ [][HookNext]_vars

\* Callers that poll ForceRotationIfNeeded and call nothing else.
ForceNext ==
    \/ \E p \in Callers : ForceRotationIfNeeded(p)
    \/ \E p \in Callers : RwrLock(p) \/ RwrRotate(p) \/ RwrCommit(p) \/ RwrRecover(p)
    \/ \E p \in Callers : Return(p)
    \/ \E a \in DOMAIN attempts : Dispatch(a)

ForceSpec == Init /\ [][ForceNext]_vars

\* ---------------------------------------------------------------------
\* Construction: NewOutputManager(config), step by step, on every
\* configuration drawn from NewInputs.  The caller "c1" constructs; the
\* field om of its frame is the pointer NewOutputManager returns and the
\* field result is the error it returns.
\* ---------------------------------------------------------------------

NewPaths ==
    { EmptyPath, PathA,
      <<"a">>,                          \* no directory
      <<".", "/", "a">>,                \* directory "."
      <<"d", "/", "a">>,                \* relative directory
      <<"/", "a">>,                     \* directory "/"
      <<"/", "d", "/">>,                \* ends in "/"
      <<"/", "d", "/", "a", "\\">>,     \* ends in "\"
      <<"/", "d", "/", ".">>,           \* base "."
      <<"/", "d", "/", ".", ".">>,      \* base ".."
      <<"/", "d", "/", ".", "a">> }     \* base ".a"

NumValues == {-1, 0, 1}

NewInputs ==
    { OutputConfig(path, maxSize, maxAge, maxBackups, compress, localTime) :
        path \in NewPaths, maxSize \in NumValues, maxAge \in NumValues,
        maxBackups \in NumValues, compress \in BOOLEAN, localTime \in BOOLEAN }
    \cup { NewOutputConfig(path) : path \in NewPaths }

NewInit ==
    /\ config \in NewInputs
    /\ handles = <<>>
    /\ fileWriter = NoHandle
    /\ isFileMode = FALSE
    /\ rotationHooks = <<>>
    /\ removedHooks = {}
    /\ mu = [writer |-> NoCaller, readers |-> {}]
    /\ lastRotation = ZeroTime
    /\ rotationCount = 0
    /\ fsize = [p \in FilePaths |-> NoFile]
    /\ mkdirs = {}
    /\ clock = 1
    /\ pc = [p \in Callers |-> IF p = "c1" THEN "new_validate" ELSE "idle"]
    /\ loc = [p \in Callers |->
                IF p = "c1" THEN [IdleLoc EXCEPT !.op = "NewOutputManager",
                                                 !.newConfig = config]
                ELSE IdleLoc]
    /\ attempts = <<>>
    /\ stamps = <<>>
    /\ nCalls = 0
    /\ crashed = FALSE

NewReturn(p, ptr, err) ==
    /\ pc' = [pc EXCEPT ![p] = "new_done"]
    /\ loc' = [loc EXCEPT ![p].om = ptr, ![p].result = err]

NewValidate(p) ==
    /\ pc[p] = "new_validate"
    /\ IF validateConfig(config) # "nil"
       THEN NewReturn(p, "nil", "InvalidConfig")
       ELSE IF config.FilePath # <<>>
       THEN /\ pc' = [pc EXCEPT ![p] = "new_setup"]
            /\ UNCHANGED loc
       ELSE NewReturn(p, "om", "nil")
    /\ UNCHANGED <<manager, registry, mu, stats, files, clock, attempts,
                   nCalls, crashed>>

NewSetupReturnsPartial(p) ==
    /\ pc[p] = "new_setup"
    /\ mkdirs' = mkdirs \cup {Dir(config.FilePath)}
    /\ \E mkdir \in BOOLEAN :
        IF mkdir
        THEN /\ handles' = Append(handles, NewLogger(config))
             /\ fileWriter' = Len(handles) + 1
             /\ isFileMode' = TRUE
             /\ NewReturn(p, "om", "nil")
        ELSE /\ UNCHANGED <<handles, fileWriter, isFileMode>>
             /\ NewReturn(p, "om", "SetupFailed")
    /\ UNCHANGED <<config, registry, mu, stats, fsize, clock, attempts,
                   nCalls, crashed>>

NewSetup(p) ==
    /\ pc[p] = "new_setup"
    /\ mkdirs' = mkdirs \cup {Dir(config.FilePath)}
    /\ \E mkdir \in BOOLEAN :
        IF mkdir
        THEN /\ handles' = Append(handles, NewLogger(config))
             /\ fileWriter' = Len(handles) + 1
             /\ isFileMode' = TRUE
             /\ NewReturn(p, "om", "nil")
        ELSE /\ UNCHANGED <<handles, fileWriter, isFileMode>>
             /\ NewReturn(p, "nil", "SetupFailed")
    /\ UNCHANGED <<config, registry, mu, stats, fsize, clock, attempts,
                   nCalls, crashed>>

NewNext ==
    \/ \E p \in Callers : NewValidate(p)
    \/ \E p \in Callers : NewSetup(p)

NewSpec == NewInit /\ [][NewNext]_vars

\* ------------------------------------------------------------- claims
AtReturn(p, o) == pc[p] = "ret" /\ loc[p].op = o
Invoked(a, h) == attempts[a].hook[h] # "none"

\* C1: when an UpdateConfig call that no other call overlaps returns an error
\* because closing the current handle or binding the new destination failed,
\* the configuration, the file mode and the bound handle are those held
\* before the call.
C1_NoPartialSwap ==
    \A p \in Callers :
        /\ AtReturn(p, "UpdateConfig") /\ ~loc[p].overlapped
        /\ loc[p].result \in {"CloseFailed", "SetupFailed"}
        => /\ config = loc[p].pre.config
           /\ isFileMode = loc[p].pre.isFileMode
           /\ fileWriter = loc[p].pre.fileWriter

\* C2: once the dispatch of a rotation attempt has copied the registry, every
\* hook that was registered when the rotation call started and was still
\* registered when the primitive ran has been handed the event.
C2_HooksOfCallNotified ==
    \A a \in DOMAIN attempts :
        attempts[a].dispatch = "done"
        => \A h \in Range(attempts[a].startHooks) \cap Range(attempts[a].primHooks) :
              Invoked(a, h)

\* C3: the pair GetRotationStats returns has a zero time exactly with a zero
\* count, and otherwise is the time one successful rotation stored together
\* with that count.
C3_StatsPairConsistent ==
    \A p \in Callers :
        AtReturn(p, "GetRotationStats")
        => /\ loc[p].rdCount = 0 <=> loc[p].rdLast = ZeroTime
           /\ loc[p].rdCount > 0
              => /\ loc[p].rdCount <= Len(stamps)
                 /\ stamps[loc[p].rdCount] = loc[p].rdLast

\* A reader returns the pair of the first rotation while another rotation
\* call is in progress.
C3_Witness ==
    \E p, q \in Callers :
        /\ AtReturn(p, "GetRotationStats") /\ loc[p].rdCount = 1
        /\ loc[q].op \in RotationOps /\ pc[q] = "rwr_lock"

\* C4: a rotation attempt rotates a handle created for the path its event
\* names; and when an UpdateConfig call and the rotation call that overlapped
\* it are the only calls made, and the UpdateConfig call is the last to
\* return, the manager is in file mode exactly when a handle is bound, the
\* handle being one created for the stored configuration's path.
C4_UpdateSerializedWithRotation ==
    /\ \A a \in DOMAIN attempts :
          handles[attempts[a].lj].path = attempts[a].event.OldFile
    /\ \A p \in Callers :
          /\ AtReturn(p, "UpdateConfig") /\ loc[p].concurrent /\ nCalls = 2
          /\ \A q \in Callers \ {p} : pc[q] = "idle"
          => /\ isFileMode <=> fileWriter # NoHandle
             /\ fileWriter # NoHandle => handles[fileWriter].path = config.FilePath

\* C5: a rotation call that reached the primitive returns no error exactly
\* when the primitive succeeded; when it failed, recovery was attempted and
\* the error is RotationFailedRecovered if recovery succeeded and
\* RotationAndRecoveryFailed if it failed.  A Rotate call that did not reach
\* the primitive returns an error.
C5_ResultFollowsPrimitive ==
    \A p \in Callers :
        pc[p] = "ret" /\ loc[p].op \in RotationOps
        => IF loc[p].attempt = 0
           THEN loc[p].op = "Rotate" => loc[p].result # "nil"
           ELSE LET ok == attempts[loc[p].attempt].event.Success
                IN  /\ loc[p].result = "nil" <=> ok
                    /\ ok => loc[p].recoveryErr = "none"
                    /\ ~ok /\ loc[p].recoveryErr = "nil"
                       => loc[p].result = "RotationFailedRecovered"
                    /\ ~ok /\ loc[p].recoveryErr # "nil"
                       => /\ loc[p].recoveryErr # "none"
                          /\ loc[p].result = "RotationAndRecoveryFailed"

\* The primitive failed, recovery bound a new handle, the call returns.
C5_Witness ==
    \E p \in Callers :
        /\ AtReturn(p, "Rotate") /\ loc[p].result = "RotationFailedRecovered"
        /\ fileWriter # loc[p].lj

\* C6: once the dispatch of a failed rotation attempt has copied the
\* registry, every hook registered when the primitive failed has been handed
\* the event; and every event has an error exactly when Success is false.
C6_FailureHooksNotified ==
    \A a \in DOMAIN attempts :
        /\ attempts[a].event.Error # "nil" <=> ~attempts[a].event.Success
        /\ attempts[a].dispatch = "done" /\ ~attempts[a].event.Success
           => \A h \in Range(attempts[a].primHooks) : Invoked(a, h)

\* C7: a Rotate call that no other rotation call overlaps leaves the count
\* one higher and the last rotation time no earlier than its start when it
\* returns no error, and leaves both unchanged when it returns an error.
C7_StatsFollowResult ==
    \A p \in Callers :
        AtReturn(p, "Rotate") /\ ~loc[p].concurrent
        => IF loc[p].result = "nil"
           THEN /\ rotationCount = loc[p].pre.rotationCount + 1
                /\ lastRotation >= loc[p].pre.clock
                /\ lastRotation # loc[p].pre.lastRotation
           ELSE /\ rotationCount = loc[p].pre.rotationCount
                /\ lastRotation = loc[p].pre.lastRotation

\* A second successful rotation returns.
C7_Witness ==
    \E p \in Callers :
        /\ AtReturn(p, "Rotate") /\ ~loc[p].concurrent
        /\ loc[p].result = "nil" /\ rotationCount = 2

\* C8: Rotate on a manager with no handle bound returns NoFileConfigured
\* without reaching the primitive or starting a dispatch, and changes no
\* statistics.
C8_ConsoleRotateRejected ==
    \A p \in Callers :
        AtReturn(p, "Rotate") /\ loc[p].pre.fileWriter = NoHandle
        => /\ loc[p].result = "NoFileConfigured"
           /\ loc[p].attempt = 0
           /\ ~loc[p].concurrent
              => /\ rotationCount = loc[p].pre.rotationCount
                 /\ lastRotation = loc[p].pre.lastRotation

\* Rotate is rejected on a console-only manager that has a hook registered.
C8_Witness ==
    \E p \in Callers :
        /\ AtReturn(p, "Rotate") /\ loc[p].pre.fileWriter = NoHandle
        /\ ~isFileMode /\ rotationHooks # <<>> /\ attempts = <<>>

\* C9: a panic in a hook never leaves its goroutine, and every other hook
\* copied for the same event has been handed it.
C9_PanicContained ==
    /\ ~crashed
    /\ \A a \in DOMAIN attempts, h \in Hooks :
          attempts[a].hook[h] = "panicked"
          => \A g \in Range(attempts[a].snap) : Invoked(a, g)

\* The hook registered first has panicked, the one registered after it has
\* returned, and the rotation returned no error.
C9_Witness ==
    \E a \in DOMAIN attempts :
        /\ attempts[a].snap = <<"h1", "h2">>
        /\ attempts[a].hook["h1"] = "panicked"
        /\ attempts[a].hook["h2"] = "returned"
        /\ attempts[a].event.Success /\ rotationCount = 1

\* C10: every call that has started returns, whether or not the hooks of
\* earlier rotations have returned; and when no call is in progress the lock
\* is free, so the next call can take it.
C10_CallsReturn ==
    /\ \A p \in Callers : (pc[p] # "idle") ~> (pc[p] = "idle")
    /\ []((\A p \in Callers : pc[p] = "idle") => CanLock)

\* A second Rotate returns while a hook of the first is still running.
C10_Witness ==
    \E p \in Callers, a \in DOMAIN attempts :
        /\ AtReturn(p, "Rotate") /\ loc[p].attempt > a
        /\ attempts[a].hook["h2"] = "running"

\* C11: the lock is held only by calls in progress, never by a dispatch or
\* hook goroutine; so while a hook runs and no call is in progress the lock is
\* free, and the hook's own call into the manager can take it.
C11_HooksRunUnlocked ==
    /\ mu.writer # NoCaller => mu.writer \in Callers /\ pc[mu.writer] # "idle"
    /\ \A r \in mu.readers : r \in Callers /\ pc[r] # "idle"
    /\ \A a \in DOMAIN attempts, h \in Hooks :
          /\ attempts[a].hook[h] = "running"
          /\ \A p \in Callers : pc[p] = "idle"
          => CanLock

\* A hook has emptied the registry from its own goroutine while a hook
\* of the same event is still running.
C11_Witness ==
    \E a \in DOMAIN attempts :
        /\ attempts[a].snap = <<"h1", "h2">>
        /\ attempts[a].hook["h2"] = "called"
        /\ attempts[a].hook["h1"] = "running"
        /\ rotationHooks = <<>>

\* C12: a rotation attempt during which no hook was registered, from the
\* start of its call to its dispatch, invokes no hook that
\* RemoveAllRotationHooks had removed before the call started, and invokes no
\* hook at all when the registry was empty at the start of the call.
C12_RemovedHooksNotInvoked ==
    \A a \in DOMAIN attempts :
        attempts[a].dispatch = "done" /\ ~attempts[a].hookAdded
        => /\ \A h \in attempts[a].startRemoved : ~Invoked(a, h)
           /\ attempts[a].startHooks = <<>> => attempts[a].snap = <<>>

\* A rotation that started after a hook was removed has been dispatched.
C12_Witness ==
    \E a \in DOMAIN attempts :
        /\ attempts[a].dispatch = "done" /\ ~attempts[a].hookAdded
        /\ attempts[a].startRemoved # {} /\ attempts[a].startHooks = <<>>
        /\ attempts[a].event.Success

\* C13: a ForceRotationIfNeeded call that no other call overlaps, on a
\* file-mode manager whose file can be stat-ed, makes no rotation attempt,
\* returns no error and leaves the statistics alone when the size is under
\* MaxSize * 1,048,576 bytes; otherwise it makes exactly one attempt, whose
\* outcome is what it returns and what the statistics count.
C13_ForceRotationThreshold ==
    \A p \in Callers :
        /\ AtReturn(p, "ForceRotationIfNeeded") /\ ~loc[p].overlapped
        /\ loc[p].pre.isFileMode /\ loc[p].pre.fileWriter # NoHandle
        /\ loc[p].pre.size # NoFile
        => IF loc[p].pre.size < loc[p].pre.config.MaxSize * 1048576
           THEN /\ loc[p].attempt = 0 /\ Len(attempts) = loc[p].pre.nAttempts
                /\ loc[p].result = "nil"
                /\ rotationCount = loc[p].pre.rotationCount
                /\ lastRotation = loc[p].pre.lastRotation
           ELSE /\ Len(attempts) = loc[p].pre.nAttempts + 1
                /\ loc[p].attempt = Len(attempts)
                /\ loc[p].result = "nil" <=> attempts[loc[p].attempt].event.Success
                /\ loc[p].result
                      \in {"nil", "RotationFailedRecovered", "RotationAndRecoveryFailed"}
                /\ rotationCount = loc[p].pre.rotationCount
                      + (IF loc[p].result = "nil" THEN 1 ELSE 0)

\* A file of exactly MaxSize megabytes has been rotated.
C13_Witness ==
    \E p \in Callers :
        /\ AtReturn(p, "ForceRotationIfNeeded") /\ ~loc[p].overlapped
        /\ loc[p].pre.size = loc[p].pre.config.MaxSize * 1048576
        /\ loc[p].result = "nil" /\ rotationCount = loc[p].pre.rotationCount + 1

\* C14: a ForceRotationIfNeeded call that no other call overlaps, on a
\* manager that is not in file mode or whose file cannot be stat-ed, returns
\* no error, makes no rotation attempt and leaves the statistics alone.
C14_ForceRotationNothingToDo ==
    \A p \in Callers :
        /\ AtReturn(p, "ForceRotationIfNeeded") /\ ~loc[p].overlapped
        /\ \/ ~loc[p].pre.isFileMode
           \/ loc[p].pre.fileWriter = NoHandle
           \/ loc[p].pre.size = NoFile
        => /\ loc[p].result = "nil"
           /\ loc[p].attempt = 0 /\ Len(attempts) = loc[p].pre.nAttempts
           /\ rotationCount = loc[p].pre.rotationCount
           /\ lastRotation = loc[p].pre.lastRotation

\* The log file of a file-mode manager does not exist yet, and a hook is
\* registered.
C14_Witness ==
    \E p \in Callers :
        /\ AtReturn(p, "ForceRotationIfNeeded") /\ ~loc[p].overlapped
        /\ loc[p].pre.isFileMode /\ loc[p].pre.fileWriter # NoHandle
        /\ loc[p].pre.size = NoFile /\ loc[p].pre.rotationHooks # <<>>

\* C15: an UpdateConfig call that no other call overlaps, given a
\* configuration that does not validate, returns the validation error and leaves everything as it was: the stored
\* configuration, the file mode, the bound handle and every handle's open
\* file, the statistics and the hook registry.
C15_InvalidConfigChangesNothing ==
    \A p \in Callers :
        /\ AtReturn(p, "UpdateConfig") /\ ~loc[p].overlapped
        /\ validateConfig(loc[p].newConfig) # "nil"
        => /\ loc[p].result = "InvalidConfig"
           /\ config = loc[p].pre.config
           /\ isFileMode = loc[p].pre.isFileMode
           /\ fileWriter = loc[p].pre.fileWriter
           /\ handles = loc[p].pre.handles
           /\ rotationCount = loc[p].pre.rotationCount
           /\ lastRotation = loc[p].pre.lastRotation
           /\ rotationHooks = loc[p].pre.rotationHooks

\* The rejected call was made on a manager whose file is open, with a hook
\* registered and a rotation counted.
C15_Witness ==
    \E p \in Callers :
        /\ AtReturn(p, "UpdateConfig") /\ loc[p].result = "InvalidConfig"
        /\ fileWriter # NoHandle /\ handles[fileWriter].live
        /\ rotationHooks # <<>> /\ rotationCount = 1

\* C16: in an UpdateConfig call that no other call overlaps, the handle bound
\* before the call is closed while no new handle exists yet; and when the
\* call returns no error the stored configuration is newConfig, the manager
\* is in file mode exactly when newConfig has a path, with no handle bound
\* and GetWriter the console when it has none, and a new handle for the new
\* path bound and returned by GetWriter when it has one.
C16_UpdateConfigRebinds ==
    \A p \in Callers :
        loc[p].op = "UpdateConfig" /\ ~loc[p].overlapped
        => LET old == loc[p].pre.fileWriter
               new == loc[p].newConfig
           IN  /\ pc[p] = "uc_set"
                  => /\ handles = IF old = NoHandle THEN loc[p].pre.handles
                                  ELSE [loc[p].pre.handles EXCEPT ![old].live = FALSE]
                     /\ fileWriter = NoHandle
               /\ pc[p] = "ret" /\ loc[p].result = "nil"
                  => /\ config = new
                     /\ isFileMode <=> new.FilePath # <<>>
                     /\ old # NoHandle => ~handles[old].live /\ fileWriter # old
                     /\ new.FilePath = <<>>
                        => fileWriter = NoHandle /\ GetWriter = "stdout"
                     /\ new.FilePath # <<>>
                        => /\ fileWriter = Len(loc[p].pre.handles) + 1
                           /\ fileWriter = Len(handles)
                           /\ handles[fileWriter].path = new.FilePath
                           /\ GetWriter = fileWriter

\* A manager whose file is open has been moved to another path.
C16_Witness ==
    \E p \in Callers :
        /\ AtReturn(p, "UpdateConfig") /\ ~loc[p].overlapped
        /\ loc[p].result = "nil" /\ loc[p].newConfig.FilePath = PathB
        /\ loc[p].pre.fileWriter # NoHandle
        /\ loc[p].pre.handles[loc[p].pre.fileWriter].live

C18_UsableAfterRecovery ==
    \A p \in Callers :
        AtReturn(p, "Rotate")
        => /\ loc[p].result = "RotationFailedRecovered"
              => /\ isFileMode
                 /\ fileWriter # NoHandle /\ fileWriter # loc[p].lj
                 /\ fileWriter = Len(handles)
                 /\ handles[fileWriter].path = config.FilePath
                 /\ GetWriter = fileWriter
           /\ /\ loc[p].attempt > 1
              /\ attempts[loc[p].attempt - 1].recovery = "nil"
              /\ attempts[loc[p].attempt].event.Success
              => /\ loc[p].result = "nil"
                 /\ rotationCount = loc[p].pre.rotationCount + 1

\* The rotation after a recovered failure has succeeded, on the handle the
\* recovery created.
C18_Witness ==
    \E p \in Callers :
        /\ AtReturn(p, "Rotate") /\ loc[p].attempt = 2
        /\ attempts[1].recovery = "nil" /\ ~attempts[1].event.Success
        /\ loc[p].result = "nil" /\ rotationCount = 1
        /\ loc[p].lj = 2 /\ handles[2].live

\* C19: NewOutputManager returns either a manager and no error, or nil and
\* an error.  A returned manager is fully initialised: its configuration is
\* valid, it is in file mode exactly when the path is non-empty, and in file
\* mode it holds a handle for the configured path whose directory was
\* created.  A configuration that fails validation (in particular
\* MaxSize <= 0, MaxAge < 0 or MaxBackups < 0) is refused before os.MkdirAll
\* is called on anything, and a failed os.MkdirAll yields no manager.
C19_AllOrNothing ==
    \A p \in Callers :
        (pc[p] = "new_done" /\ loc[p].op = "NewOutputManager") =>
            /\ (loc[p].om = "om") <=> (loc[p].result = "nil")
            /\ loc[p].om \in {"om", "nil"}
            /\ loc[p].om = "om" =>
                /\ validateConfig(config) = "nil"
                /\ isFileMode <=> (config.FilePath # <<>>)
                /\ IF config.FilePath # <<>>
                   THEN /\ fileWriter \in DOMAIN handles
                        /\ handles[fileWriter].path = config.FilePath
                        /\ Dir(config.FilePath) \in mkdirs
                   ELSE fileWriter = NoHandle /\ handles = <<>> /\ mkdirs = {}
                /\ rotationHooks = <<>> /\ rotationCount = 0
                /\ lastRotation = ZeroTime
            /\ (config.MaxSize <= 0 \/ config.MaxAge < 0 \/ config.MaxBackups < 0
                \/ validateConfig(config) # "nil") =>
                /\ loc[p].om = "nil" /\ loc[p].result = "InvalidConfig"
                /\ mkdirs = {} /\ handles = <<>>
            /\ loc[p].result = "SetupFailed" =>
                /\ loc[p].om = "nil"
                /\ mkdirs = {Dir(config.FilePath)}
                /\ handles = <<>>

C19_Witness ==
    \E p \in Callers :
        /\ pc[p] = "new_done" /\ loc[p].op = "NewOutputManager"
        /\ loc[p].result = "SetupFailed" /\ loc[p].om = "nil"
        /\ mkdirs # {}

\* C20: validateConfig rejects a configuration exactly when its path is
\* non-empty and has an empty or "." directory, ends in a separator
\* character ("/" or "\"), or has the base name "", "." or "..", or when
\* MaxSize <= 0, MaxAge < 0 or MaxBackups < 0.  The numeric constraints
\* apply to the empty (console-only) path too, and Compress and LocalTime
\* never change the outcome.
C20_RejectedIff ==
    \A p \in Callers :
        (loc[p].op = "NewOutputManager" /\ pc[p] # "new_validate") =>
            LET path == config.FilePath
                badPath ==
                    /\ path # <<>>
                    /\ \/ Dir(path) = <<>> \/ Dir(path) = <<".">>
                       \/ path[Len(path)] \in {"/", "\\"}
                       \/ Base(path) = <<>> \/ Base(path) = <<".">>
                       \/ Base(path) = <<".", ".">>
                badNumber ==
                    config.MaxSize <= 0 \/ config.MaxAge < 0 \/ config.MaxBackups < 0
                rejected ==
                    pc[p] = "new_done" /\ loc[p].result = "InvalidConfig"
            IN  /\ rejected <=> (badPath \/ badNumber)
                /\ \A compress, localTime \in BOOLEAN :
                    (validateConfig([config EXCEPT !.Compress = compress,
                                                   !.LocalTime = localTime]) # "nil")
                        <=> rejected

C20_Witness ==
    \E p \in Callers :
        /\ pc[p] = "new_done" /\ loc[p].op = "NewOutputManager"
        /\ loc[p].result = "InvalidConfig"
        /\ config.FilePath = <<>>
        /\ config.MaxSize > 0 /\ config.MaxAge < 0 /\ config.Compress

\* C21: a manager NewOutputManager returns for an empty path is not in file
\* mode, its GetWriter is os.Stdout and its GetCurrentFileSize fails with
\* NotInFileMode; a manager returned for a non-empty path is in file mode,
\* its GetFilePath is the path it was given and its GetWriter is the handle
\* bound for that path.
C21_QueriesAfterConstruction ==
    \A p \in Callers :
        (pc[p] = "new_done" /\ loc[p].op = "NewOutputManager" /\ loc[p].om = "om") =>
            IF loc[p].newConfig.FilePath = <<>>
            THEN /\ ~IsFileMode
                 /\ GetWriter = "stdout"
                 /\ GetCurrentFileSize.err = "NotInFileMode"
            ELSE /\ IsFileMode
                 /\ GetFilePath = loc[p].newConfig.FilePath
                 /\ fileWriter \in DOMAIN handles
                 /\ GetWriter = fileWriter
                 /\ handles[fileWriter].path = loc[p].newConfig.FilePath
                 /\ GetCurrentFileSize.err # "NotInFileMode"

C21_Witness ==
    \E p \in Callers :
        /\ pc[p] = "new_done" /\ loc[p].op = "NewOutputManager" /\ loc[p].om = "om"
        /\ loc[p].newConfig.FilePath = <<>>
        /\ GetWriter = "stdout" /\ GetCurrentFileSize.err = "NotInFileMode"

\* C22: in every step of every interleaving, rotationCount does not decrease
\* and lastRotation does not move backwards, and after the step
\* rotationCount is the number of rotation attempts made since construction
\* whose primitive call succeeded.
C22_StatsMonotonic ==
    [][ /\ rotationCount' >= rotationCount
        /\ lastRotation' >= lastRotation
        /\ rotationCount' =
              Cardinality({a \in DOMAIN attempts' : attempts'[a].event.Success})
      ]_vars

\* A failed rotation attempt after a successful one: the statistics are
\* those of the first.
C22_Witness ==
    /\ Len(attempts) = 2
    /\ attempts[1].event.Success /\ ~attempts[2].event.Success
    /\ rotationCount = 1 /\ lastRotation = attempts[1].event.Timestamp

\* C23: when two Rotate calls that overlap are the only calls made and the
\* primitive succeeded in both, then once the second has updated the
\* statistics rotationCount has grown by two since construction, and
\* lastRotation is the time recorded by the attempt that updated the
\* statistics last, which is later than the other attempt's.
C23_NoLostUpdate ==
    \A p \in Callers :
        ( /\ AtReturn(p, "Rotate") /\ loc[p].concurrent
          /\ nCalls = 2 /\ Len(attempts) = 2
          /\ \A q \in Callers \ {p} : pc[q] = "idle"
          /\ \A a \in DOMAIN attempts : attempts[a].event.Success )
        => /\ rotationCount = 2
           /\ lastRotation = attempts[2].event.Timestamp
           /\ attempts[2].event.Timestamp > attempts[1].event.Timestamp
           /\ loc[p].attempt = 2

C23_Witness ==
    \E p \in Callers :
        /\ AtReturn(p, "Rotate") /\ loc[p].concurrent
        /\ nCalls = 2 /\ Len(attempts) = 2
        /\ \A q \in Callers \ {p} : pc[q] = "idle"
        /\ \A a \in DOMAIN attempts : attempts[a].event.Success
        /\ rotationCount = 2

\* C24: while the primitive call of a rotation attempt is in progress, and
\* while its recovery step is, the manager's lock is free: om.mu.RLock() of a
\* GetRotationStats call and om.mu.Lock() of an AddRotationHook call can be
\* granted.
C24_LockFreeDuringPrimitive ==
    \A p \in Callers :
        pc[p] \in {"rwr_rotate", "rwr_recover"} => CanRLock /\ CanLock

\* C25: a rotation call that no other call overlaps and that reached the
\* primitive has made exactly one attempt, with one event: OldFile and
\* NewFile are the path of the configuration stored when the call started,
\* FileSize is the size of that file before the primitive (0 when os.Stat
\* failed), Timestamp is the time read before the primitive, later than any
\* time read before the call, and when the primitive succeeded it is the
\* lastRotation stored with the new count.  The hooks of the attempt are
\* handed that event.
C25_EventOfAttempt ==
    \A p \in Callers :
        (pc[p] = "ret" /\ loc[p].op \in RotationOps /\ loc[p].attempt # 0
         /\ ~loc[p].overlapped) =>
            LET e == attempts[loc[p].attempt].event
                pre == loc[p].pre
            IN  /\ Len(attempts) = pre.nAttempts + 1
                /\ loc[p].attempt = Len(attempts)
                /\ e.OldFile = pre.config.FilePath
                /\ e.NewFile = pre.config.FilePath
                /\ e.FileSize = IF pre.size = NoFile THEN 0 ELSE pre.size
                /\ e.Timestamp = loc[p].rotationTime
                /\ e.Timestamp > pre.clock
                /\ e.Success <=> loc[p].err = "nil"
                /\ e.Success =>
                    /\ lastRotation = e.Timestamp
                    /\ rotationCount = pre.rotationCount + 1
                    /\ stamps[rotationCount] = e.Timestamp

\* A successful rotation of a file at the limit, with a hook registered.
C25_Witness ==
    \E p \in Callers :
        /\ pc[p] = "ret" /\ loc[p].op \in RotationOps /\ loc[p].attempt # 0
        /\ ~loc[p].overlapped
        /\ attempts[loc[p].attempt].event.Success
        /\ attempts[loc[p].attempt].event.FileSize = MB
        /\ rotationHooks # <<>>

\* C26: a Close call changes neither the configuration, nor the statistics,
\* nor the hook registry, nor which handle is bound.  Outside file mode it
\* returns nil and changes nothing at all; in file mode it closes the bound
\* handle and nothing else, and returns nil exactly when that handle's file
\* is closed afterwards.
C26_CloseFrame ==
    [][ \A p \in Callers :
          (pc[p] = "idle" /\ pc'[p] = "ret" /\ loc'[p].op = "Close") =>
              /\ config' = config
              /\ fileWriter' = fileWriter /\ isFileMode' = isFileMode
              /\ lastRotation' = lastRotation /\ rotationCount' = rotationCount
              /\ rotationHooks' = rotationHooks
              /\ fsize' = fsize /\ mkdirs' = mkdirs
              /\ IF ~isFileMode
                 THEN /\ loc'[p].result = "nil"
                      /\ handles' = handles
                 ELSE /\ fileWriter \in DOMAIN handles
                      /\ DOMAIN handles' = DOMAIN handles
                      /\ \A h \in DOMAIN handles :
                            h # fileWriter => handles'[h] = handles[h]
                      /\ handles'[fileWriter].path = handles[fileWriter].path
                      /\ loc'[p].result \in {"nil", "CloseFailed"}
                      /\ loc'[p].result = "nil" <=> ~handles'[fileWriter].live
                      /\ loc'[p].result = "CloseFailed" => handles' = handles
      ]_vars

\* Close of an open file fails: the call returns the error.
C26_Witness ==
    \E p \in Callers :
        /\ AtReturn(p, "Close") /\ loc[p].result = "CloseFailed"
        /\ isFileMode /\ handles[fileWriter].live

\* C27: whatever calls were made before, the stream GetMultiWriter returns
\* writes to the console; in file mode it also writes to the bound handle,
\* which is a handle for the configured path, and outside file mode (in
\* particular when no file is configured) it writes to the console alone.
C27_MultiWriterFansOut ==
    /\ GetMultiWriter.console
    /\ IF IsFileMode
       THEN /\ GetMultiWriter.file # NoHandle
            /\ GetMultiWriter.file = fileWriter
            /\ fileWriter \in DOMAIN handles
            /\ handles[fileWriter].path = config.FilePath
       ELSE GetMultiWriter.file = NoHandle
    /\ config.FilePath = <<>> => GetMultiWriter.file = NoHandle

\* File mode after the handle was replaced: the stream writes to the console
\* and to the new handle.
C27_Witness ==
    /\ IsFileMode /\ nCalls > 0 /\ \A p \in Callers : pc[p] = "idle"
    /\ GetMultiWriter = [console |-> TRUE, file |-> 2]
    /\ fileWriter = 2

\* C28: for the path of every configuration a manager is constructed with,
\* NewOutputConfig(path) has that path, MaxSize 100, MaxAge 7, MaxBackups 5,
\* Compress true and LocalTime false; validateConfig refuses it for its path
\* or not at all, and NewOutputManager given it fails validation only when
\* the directory or the file name of the path is refused.
C28_DefaultsPassNumericChecks ==
    \A p \in Callers :
        loc[p].op = "NewOutputManager" =>
            LET path == loc[p].newConfig.FilePath
                c == NewOutputConfig(path)
            IN  /\ c.FilePath = path
                /\ c.MaxSize = 100 /\ c.MaxAge = 7 /\ c.MaxBackups = 5
                /\ c.Compress = TRUE /\ c.LocalTime = FALSE
                /\ c.MaxSize > 0 /\ c.MaxAge >= 0 /\ c.MaxBackups >= 0
                /\ validateConfig(c) \in {"nil", "directory cannot be empty",
                                          "filename cannot be empty"}
                /\ (config = c /\ pc[p] = "new_done"
                    /\ loc[p].result = "InvalidConfig") =>
                        /\ path # <<>>
                        /\ \/ Dir(path) = <<".">>
                           \/ path[Len(path)] \in {"/", "\\"}
                           \/ Base(path) \in {<<".">>, <<".", ".">>}

\* NewOutputManager refuses NewOutputConfig("a"), which names no directory.
C28_Witness ==
    \E p \in Callers :
        /\ pc[p] = "new_done" /\ loc[p].op = "NewOutputManager"
        /\ config = NewOutputConfig(<<"a">>) /\ config.MaxSize = 100
        /\ loc[p].result = "InvalidConfig"

\* C29: the step in which the dispatch of an attempt copies the registry
\* happens while no caller holds the write lock, copies the registry as it
\* is at that instant, without a hook twice, and starts exactly the copied
\* hooks.  No later step changes the copy or which hooks are run for the
\* attempt, and a hook that has finished for the attempt is not run again.
C29_SnapshotOfRegistry ==
    [][ \A a \in DOMAIN attempts :
          /\ (attempts[a].dispatch = "spawned" /\ attempts'[a].dispatch = "done") =>
                /\ mu.writer = NoCaller
                /\ attempts'[a].snap = rotationHooks
                /\ rotationHooks' = rotationHooks
                /\ Cardinality(Range(attempts'[a].snap)) = Len(attempts'[a].snap)
                /\ \A h \in Hooks :
                      attempts'[a].hook[h] = "running" <=> h \in Range(rotationHooks)
          /\ attempts[a].dispatch = "done" =>
                /\ attempts'[a].dispatch = "done"
                /\ attempts'[a].snap = attempts[a].snap
                /\ \A h \in Hooks :
                      /\ Invoked(a, h) <=> h \in Range(attempts[a].snap)
                      /\ (attempts'[a].hook[h] # "none") <=> Invoked(a, h)
                      /\ attempts[a].hook[h] \in {"returned", "panicked"}
                         => attempts'[a].hook[h] = attempts[a].hook[h]
      ]_vars

\* A hook registered after the dispatch of an attempt copied the registry:
\* it is in the registry and is not run for that attempt.
C29_Witness ==
    \E a \in DOMAIN attempts, h \in Hooks :
        /\ attempts[a].dispatch = "done" /\ attempts[a].snap # <<>>
        /\ h \in Range(rotationHooks) /\ h \notin Range(attempts[a].snap)
        /\ ~Invoked(a, h)

\* C30: when two ForceRotationIfNeeded calls that overlap are the only calls
\* made, the file was at or above the limit, and every primitive call
\* succeeded (which leaves the file empty, under the limit), then
\* rotationCount has grown by one since construction: one rotation was
\* performed, not one per caller.
C30_OneRotationPerCrossing ==
    \A p \in Callers :
        ( /\ AtReturn(p, "ForceRotationIfNeeded") /\ loc[p].concurrent
          /\ nCalls = 2
          /\ \A q \in Callers \ {p} : pc[q] = "idle"
          /\ attempts # <<>>
          /\ \A a \in DOMAIN attempts : attempts[a].event.Success
          /\ NeedsRotation(attempts[1].event.FileSize, config) )
        => /\ rotationCount = 1
           /\ Len(attempts) = 1

\* C31: when one goroutine calls the manager and no call is in progress, the
\* manager is in file mode exactly when a handle is bound, in file mode the
\* stored configuration has a path and the bound handle was created for it,
\* and the stored configuration passes validateConfig.
C31_ModeMatchesHandle ==
    (\A p \in Callers : pc[p] = "idle") =>
        /\ IsFileMode <=> fileWriter # NoHandle
        /\ IsFileMode => /\ config.FilePath # <<>>
                         /\ fileWriter \in DOMAIN handles
                         /\ handles[fileWriter].path = config.FilePath
        /\ validateConfig(config) = "nil"

\* After an UpdateConfig whose setupFileOutput failed: a path is stored, no
\* handle is bound and the manager is not in file mode.
C31_Witness ==
    /\ \A p \in Callers : pc[p] = "idle"
    /\ nCalls > 0
    /\ config.FilePath # <<>> /\ ~IsFileMode /\ fileWriter = NoHandle

\* C32: when a hook that was handed the event of a successful rotation
\* attempt calls GetRotationStats, no caller holds the write lock, the count
\* it reads is at least 1 and at least the number of the attempt among the
\* successful ones, and the time it reads is not earlier than the event's
\* Timestamp.
C32_HookSeesStatistics ==
    [][ \A a \in DOMAIN attempts, h \in Hooks :
          ( /\ attempts[a].hook[h] = "running" /\ attempts'[a].hook[h] = "called"
            /\ rotationHooks' = rotationHooks
            /\ attempts[a].event.Success )
          => /\ mu.writer = NoCaller
             /\ rotationCount >= 1
             /\ rotationCount >=
                   Cardinality({b \in 1..a : attempts[b].event.Success})
             /\ lastRotation >= attempts[a].event.Timestamp
             /\ lastRotation # ZeroTime
      ]_vars

\* The hook of a successful attempt has called GetRotationStats while the
\* registry still holds it.
C32_Witness ==
    \E a \in DOMAIN attempts, h \in Hooks :
        /\ attempts[a].hook[h] = "called" /\ attempts[a].event.Success
        /\ h \in Range(rotationHooks)
        /\ rotationCount >= 1 /\ lastRotation >= attempts[a].event.Timestamp

\* C33: a Close call of a file-mode manager leaves it in file mode with the
\* same writer, whether or not the handle's file was open.  A Rotate call
\* that starts with a bound handle whose file is closed is not refused with
\* NoFileConfigured: it calls the primitive on that handle, and the count
\* grows by one when the primitive succeeds.
C33_CloseKeepsHandle ==
    /\ [][ \A p \in Callers :
             (pc[p] = "idle" /\ pc'[p] = "ret" /\ loc'[p].op = "Close"
              /\ IsFileMode) =>
                 /\ IsFileMode'
                 /\ GetWriter' = GetWriter
                 /\ fileWriter' = fileWriter /\ fileWriter # NoHandle
                 /\ ~handles[fileWriter].live => loc'[p].result = "nil"
         ]_vars
    /\ [](\A p \in Callers :
            LET pre == loc[p].pre
                closedAtStart ==
                    /\ AtReturn(p, "Rotate") /\ ~loc[p].overlapped
                    /\ pre.fileWriter # NoHandle
                    /\ ~pre.handles[pre.fileWriter].live
            IN  closedAtStart =>
                    /\ loc[p].result # "NoFileConfigured"
                    /\ loc[p].attempt # 0
                    /\ attempts[loc[p].attempt].lj = pre.fileWriter
                    /\ IF attempts[loc[p].attempt].event.Success
                       THEN /\ rotationCount = pre.rotationCount + 1
                            /\ loc[p].result = "nil"
                       ELSE rotationCount = pre.rotationCount)

\* The one handle was open after a first rotation and closed when the second
\* Rotate call started, so a Close call came between them; the second
\* rotation succeeded on it.
C33_Witness ==
    \E p \in Callers :
        /\ AtReturn(p, "Rotate") /\ ~loc[p].overlapped
        /\ Len(handles) = 1 /\ loc[p].pre.fileWriter = 1
        /\ loc[p].pre.rotationCount = 1
        /\ ~loc[p].pre.handles[1].live
        /\ rotationCount = 2 /\ IsFileMode /\ fileWriter = 1

\* C34: no step of an UpdateConfig call, whatever the call returns, changes
\* rotationCount, lastRotation or the hook registry; and the dispatch of
\* every rotation attempt, of the first destination or of a later one, runs
\* every hook that is in the registry when it copies it.
C34_UpdateConfigKeepsStatsAndHooks ==
    [][ /\ \A p \in Callers :
             ( /\ pc'[p] # pc[p]
               /\ loc[p].op = "UpdateConfig" \/ loc'[p].op = "UpdateConfig" )
             => /\ rotationCount' = rotationCount
                /\ lastRotation' = lastRotation
                /\ rotationHooks' = rotationHooks
        /\ \A a \in DOMAIN attempts :
             (attempts[a].dispatch = "spawned" /\ attempts'[a].dispatch = "done")
             => \A h \in Range(rotationHooks) : attempts'[a].hook[h] = "running"
      ]_vars

\* An UpdateConfig call has moved the manager to the second path: the hook
\* registered and the rotation counted before the call are still there.
C34_Witness ==
    \E p \in Callers :
        /\ AtReturn(p, "UpdateConfig") /\ loc[p].result = "nil"
        /\ ~loc[p].overlapped
        /\ config.FilePath = PathB
        /\ loc[p].pre.rotationHooks # <<>> /\ rotationHooks = loc[p].pre.rotationHooks
        /\ loc[p].pre.rotationCount = 1 /\ rotationCount = 1
        /\ lastRotation = loc[p].pre.lastRotation

\* C35: under any interleaving of the callers, the calls being finitely
\* many, there comes a point after which every call has returned, the
\* dispatch goroutine of every rotation attempt has got the read lock and
\* copied the registry, and the lock is free.  A caller that is about to take
\* the lock does not hold it, a caller past om.mu.Lock() holds it until it
\* returns, a caller in no call holds nothing, and the dispatch goroutine
\* keeps no lock.
C35_OperationsTerminate ==
    /\ <>[]( /\ \A p \in Callers : pc[p] = "idle"
             /\ \A a \in DOMAIN attempts : attempts[a].dispatch = "done"
             /\ CanLock )
    /\ [](\A p \in Callers :
            /\ pc[p] \in {"idle", "rwr_lock"} => mu.writer # p /\ p \notin mu.readers
            /\ pc[p] \in {"rwr_rotate", "rwr_commit", "rwr_recover"} => mu.writer = p)
    /\ [](mu.readers \subseteq Callers)

\* The dispatch of a failed attempt whose recovery ran has copied the
\* registry, and every call has returned.
C35_Witness ==
    /\ \A p \in Callers : pc[p] = "idle"
    /\ CanLock
    /\ \E a \in DOMAIN attempts :
          /\ attempts[a].recovery # "none" /\ attempts[a].dispatch = "done"

====
